---- MODULE Spec2Model ----
(***************************************************************************)
(* NYC Parking Navigator backend: the sign-text parser                     *)
(* (ParkingRuleParser), the availability evaluator                         *)
(* (ParkingService.check_parking_availability) and the in-memory cache     *)
(* that wraps parse_rule.                                                  *)
(*                                                                         *)
(* A sign text is a sequence of one-character strings, so that substring   *)
(* tests, str.split, str.strip, str.upper and the regular expressions of   *)
(* the source are computed character by character.  A time of day is the   *)
(* number of minutes since midnight, a confidence is in tenths (9 = 0.9),  *)
(* and an absent value (None) of a list-, tuple- or integer-valued field   *)
(* is the empty sequence, a present integer n the sequence <<n>>.          *)
(***************************************************************************)
EXTENDS Integers, Sequences, FiniteSets, TLC

(***************************************************************************)
(* Characters and strings                                                  *)
(***************************************************************************)
Digits == {"0", "1", "2", "3", "4", "5", "6", "7", "8", "9"}

DigitVal ==
  [c \in Digits |->
     CASE c = "0" -> 0 [] c = "1" -> 1 [] c = "2" -> 2 [] c = "3" -> 3
       [] c = "4" -> 4 [] c = "5" -> 5 [] c = "6" -> 6 [] c = "7" -> 7
       [] c = "8" -> 8 [] c = "9" -> 9]

LowerCase ==
  {"a", "b", "c", "d", "e", "f", "g", "h", "i", "j", "k", "l", "m",
   "n", "o", "p", "q", "r", "s", "t", "u", "v", "w", "x", "y", "z"}

UpperChar(c) ==
  CASE c = "a" -> "A" [] c = "b" -> "B" [] c = "c" -> "C" [] c = "d" -> "D"
    [] c = "e" -> "E" [] c = "f" -> "F" [] c = "g" -> "G" [] c = "h" -> "H"
    [] c = "i" -> "I" [] c = "j" -> "J" [] c = "k" -> "K" [] c = "l" -> "L"
    [] c = "m" -> "M" [] c = "n" -> "N" [] c = "o" -> "O" [] c = "p" -> "P"
    [] c = "q" -> "Q" [] c = "r" -> "R" [] c = "s" -> "S" [] c = "t" -> "T"
    [] c = "u" -> "U" [] c = "v" -> "V" [] c = "w" -> "W" [] c = "x" -> "X"
    [] c = "y" -> "Y" [] c = "z" -> "Z" [] OTHER -> c

\* str.upper()
upper(s) == [i \in 1..Len(s) |-> UpperChar(s[i])]

IsDigit(c) == c \in Digits
IsSpace(c) == c = " "

\* the character at position i, or "" past either end of the string
At(s, i) == IF i >= 1 /\ i <= Len(s) THEN s[i] ELSE ""

\* the least and the greatest element of a non-empty set of integers
Min(S) == CHOOSE x \in S : \A y \in S : x <= y
Max(S) == CHOOSE x \in S : \A y \in S : x >= y

\* the least element of a set of positions, 0 for the empty set
FirstOf(S) == IF S = {} THEN 0 ELSE Min(S)

\* str.strip(): s from its first to its last character that is no space
Trim(s, keep) == IF keep = {} THEN <<>> ELSE SubSeq(s, Min(keep), Max(keep))

strip(s) == Trim(s, {i \in 1..Len(s) : ~IsSpace(s[i])})

\* the literal w occurs in s at position i
StartsWithAt(s, i, w) ==
  /\ i >= 1
  /\ i + Len(w) - 1 <= Len(s)
  /\ SubSeq(s, i, i + Len(w) - 1) = w

\* Python's  w in s  for strings
Contains(s, w) == \E i \in 1..(Len(s) - Len(w) + 1) : StartsWithAt(s, i, w)

\* greedy \s* and \d* from position i: the first position not consumed
RECURSIVE SkipSpaces(_, _)
SkipSpaces(s, i) == IF IsSpace(At(s, i)) THEN SkipSpaces(s, i + 1) ELSE i

RECURSIVE SkipDigits(_, _)
SkipDigits(s, i) == IF IsDigit(At(s, i)) THEN SkipDigits(s, i + 1) ELSE i

\* n digits stand at positions i .. i+n-1
DigitsAt(s, i, n) == \A k \in i..(i + n - 1) : IsDigit(At(s, k))

\* int() of a string of decimal digits
RECURSIVE int(_)
int(ds) ==
  IF ds = <<>> THEN 0
  ELSE 10 * int(SubSeq(ds, 1, Len(ds) - 1)) + DigitVal[ds[Len(ds)]]

\* an alternation of literals lit1|lit2|... tried at position i: the index of
\* the first alternative that matches there, 0 when none does
FirstLitAt(s, i, lits) ==
  FirstOf({k \in 1..Len(lits) : StartsWithAt(s, i, lits[k])})

\* re.split(lit1|lit2|..., s), and str.split(lit) for a single literal; k is
\* the alternative matched at position i
RECURSIVE SplitFrom(_, _, _, _)
RECURSIVE SplitAt(_, _, _, _, _)
SplitAt(lits, s, i, cur, k) ==
  IF k = 0 THEN SplitFrom(lits, s, i + 1, Append(cur, s[i]))
  ELSE <<cur>> \o SplitFrom(lits, s, i + Len(lits[k]), <<>>)

SplitFrom(lits, s, i, cur) ==
  IF i > Len(s) THEN <<cur>>
  ELSE SplitAt(lits, s, i, cur, FirstLitAt(s, i, lits))

re_split(lits, s) == SplitFrom(lits, s, 1, <<>>)

\* re.findall((lit1|lit2|...), s): the matched literals, left to right; k is
\* the alternative matched at position i
RECURSIVE FindAllFrom(_, _, _)
RECURSIVE FindAllAt(_, _, _, _)
FindAllAt(lits, s, i, k) ==
  IF k = 0 THEN FindAllFrom(lits, s, i + 1)
  ELSE <<lits[k]>> \o FindAllFrom(lits, s, i + Len(lits[k]))

FindAllFrom(lits, s, i) ==
  IF i > Len(s) THEN <<>>
  ELSE FindAllAt(lits, s, i, FirstLitAt(s, i, lits))

re_findall(lits, s) == FindAllFrom(lits, s, 1)

\* sorted(list(set(xs))) for a list of integers
RECURSIVE SortedSeqOf(_)
SortedSeqOf(S) ==
  IF S = {} THEN <<>> ELSE <<Min(S)>> \o SortedSeqOf(S \ {Min(S)})

Range(xs) == {xs[i] : i \in 1..Len(xs)}

\* the list handed back as it was built
sorted_set_asBuilt(xs) == xs

sorted_set(xs) == SortedSeqOf(Range(xs))

(***************************************************************************)
(* Literals of the source                                                  *)
(***************************************************************************)
s_NO_STOPPING == <<"N", "O", " ", "S", "T", "O", "P", "P", "I", "N", "G">>
s_NO_STANDING == <<"N", "O", " ", "S", "T", "A", "N", "D", "I", "N", "G">>
s_NO_PARKING == <<"N", "O", " ", "P", "A", "R", "K", "I", "N", "G">>
s_STREET_CLEANING == <<"S", "T", "R", "E", "E", "T", " ", "C", "L", "E", "A", "N", "I", "N", "G">>
s_HOUR == <<"H", "O", "U", "R">>
s_PARKING == <<"P", "A", "R", "K", "I", "N", "G">>
s_EXCEPT == <<"E", "X", "C", "E", "P", "T">>
s_THRU == <<"T", "H", "R", "U">>
s_THROUGH == <<"T", "H", "R", "O", "U", "G", "H">>
s_AND == <<"A", "N", "D">>
s_AM == <<"A", "M">>
s_PM == <<"P", "M">>
s_MON == <<"M", "O", "N">>
s_TUE == <<"T", "U", "E">>
s_WED == <<"W", "E", "D">>
s_THU == <<"T", "H", "U">>
s_FRI == <<"F", "R", "I">>
s_SAT == <<"S", "A", "T">>
s_SUN == <<"S", "U", "N">>
s_MONDAY == <<"M", "O", "N", "D", "A", "Y">>
s_TUESDAY == <<"T", "U", "E", "S", "D", "A", "Y">>
s_WEDNESDAY == <<"W", "E", "D", "N", "E", "S", "D", "A", "Y">>
s_THURSDAY == <<"T", "H", "U", "R", "S", "D", "A", "Y">>
s_FRIDAY == <<"F", "R", "I", "D", "A", "Y">>
s_SATURDAY == <<"S", "A", "T", "U", "R", "D", "A", "Y">>
s_SUNDAY == <<"S", "U", "N", "D", "A", "Y">>

(***************************************************************************)
(* ParkingRuleParser                                                       *)
(***************************************************************************)
ShortDays == <<s_MON, s_TUE, s_WED, s_THU, s_FRI, s_SAT, s_SUN>>

FullDays ==
  <<s_MONDAY, s_TUESDAY, s_WEDNESDAY, s_THURSDAY, s_FRIDAY, s_SATURDAY,
    s_SUNDAY>>

\* self.days_map: day token -> weekday index, Monday = 0
days_map ==
  [tok \in Range(ShortDays) \cup Range(FullDays) |->
     CHOOSE d \in 0..6 : ShortDays[d + 1] = tok \/ FullDays[d + 1] = tok]

\* self.day_pattern: the alternatives in the order the pattern lists them
day_pattern == ShortDays \o FullDays

\* self.time_pattern  (\d{1,2}):?(\d{2})?\s*(AM|PM)  tried at position i.
\* The ways to match <hour digits, colon, minute digits>, in the order the
\* backtracking matcher tries them (greedy first).
TimePatternTries ==
  << <<2, 1, 2>>, <<2, 1, 0>>, <<2, 0, 2>>, <<2, 0, 0>>,
     <<1, 1, 2>>, <<1, 1, 0>>, <<1, 0, 2>>, <<1, 0, 0>> >>

\* the position of (AM|PM) when the digits and the colon are matched as try
PeriodAt(s, i, try) == SkipSpaces(s, i + try[1] + try[2] + try[3])

TimePatternFits(s, i, try) ==
  /\ DigitsAt(s, i, try[1])
  /\ try[2] = 1 => At(s, i + try[1]) = ":"
  /\ DigitsAt(s, i + try[1] + try[2], try[3])
  /\ \/ StartsWithAt(s, PeriodAt(s, i, try), s_AM)
     \/ StartsWithAt(s, PeriodAt(s, i, try), s_PM)

\* the groups of the match at position i made as try, and where it ends
TimePatternGroups(s, i, try) ==
  [hour |-> SubSeq(s, i, i + try[1] - 1),
   minute |-> SubSeq(s, i + try[1] + try[2], i + try[1] + try[2] + try[3] - 1),
   period |-> SubSeq(s, PeriodAt(s, i, try), PeriodAt(s, i, try) + 1),
   end |-> PeriodAt(s, i, try) + 2]

TimePatternTry(s, i, k) ==
  IF k = 0 THEN <<>> ELSE <<TimePatternGroups(s, i, TimePatternTries[k])>>

\* the match at position i as <<[hour, minute, period, end]>>, or <<>>
TimePatternAt(s, i) ==
  TimePatternTry(s, i,
    FirstOf({k \in 1..Len(TimePatternTries) :
               TimePatternFits(s, i, TimePatternTries[k])}))

\* self.time_pattern.findall(s); mt is the match at position i
RECURSIVE TimePatternFindAllFrom(_, _)
RECURSIVE TimePatternFindAllAt(_, _, _)
TimePatternFindAllAt(s, i, mt) ==
  IF mt = <<>> THEN TimePatternFindAllFrom(s, i + 1)
  ELSE mt \o TimePatternFindAllFrom(s, mt[1].end)

TimePatternFindAllFrom(s, i) ==
  IF i > Len(s) THEN <<>> ELSE TimePatternFindAllAt(s, i, TimePatternAt(s, i))

time_pattern_findall(s) == TimePatternFindAllFrom(s, 1)

\* datetime.time(hour, minute) accepts these arguments, otherwise ValueError
TimeValid(hour, minute) == hour \in 0..23 /\ minute \in 0..59

\* the conversion that adds 12 to every PM hour and keeps every AM hour
to_24_hour_plain(hour, period) == IF period = s_PM THEN hour + 12 ELSE hour

\* "Convert to 24-hour format"
to_24_hour(hour, period) ==
  IF period = s_PM /\ hour # 12 THEN hour + 12
  ELSE IF period = s_AM /\ hour = 12 THEN 0
  ELSE hour

\* time(hour, minute) taking any hour and minute
make_time_unchecked(hour, minute) == <<hour * 60 + minute>>

\* time(hour, minute) in minutes since midnight, <<>> when it raises
make_time(hour, minute) ==
  IF TimeValid(hour, minute) THEN <<hour * 60 + minute>> ELSE <<>>

\* _parse_time_match: <<minutes since midnight>>, or <<>> when time() raises
parse_time_match(match) ==
  make_time(to_24_hour(int(match.hour), match.period),
            IF match.minute # <<>> THEN int(match.minute) ELSE 0)

\* the tuple parse_time_range returns for the two parsed times, <<>> for None
time_tuple(start_time, end_time) ==
  IF start_time = <<>> \/ end_time = <<>> THEN <<>>
  ELSE start_time \o end_time

time_range_of_matches(matches) ==
  IF Len(matches) >= 2
  THEN time_tuple(parse_time_match(matches[1]), parse_time_match(matches[2]))
  ELSE <<>>

\* parse_time_range: <<start, end>>, or <<>> for None
parse_time_range(time_str) ==
  time_range_of_matches(time_pattern_findall(strip(upper(time_str))))

\* list(range(a, b))
RangeList(a, b) == [i \in 1..(IF b > a THEN b - a ELSE 0) |-> a + i - 1]

\* the days of a list of day tokens; tokens days_map lacks are dropped
RECURSIVE DaysOfParts(_)
DaysOfParts(parts) ==
  IF parts = <<>> THEN <<>>
  ELSE (IF strip(Head(parts)) \in DOMAIN days_map
        THEN <<days_map[strip(Head(parts))]>> ELSE <<>>)
         \o DaysOfParts(Tail(parts))

\* a day range without the week wraparound: a range whose start is after its
\* end is built with range(start_idx, end_idx + 1) and comes out empty
days_of_range_noWrap(start_idx, end_idx) == RangeList(start_idx, end_idx + 1)

\* the days from start_idx to end_idx, "Handle wraparound" included
days_of_range(start_idx, end_idx) ==
  IF start_idx <= end_idx THEN RangeList(start_idx, end_idx + 1)
  ELSE RangeList(start_idx, 7) \o RangeList(0, end_idx + 1)

\* the days between two tokens that are both in days_map
days_between(start_day, end_day) ==
  IF start_day \in DOMAIN days_map /\ end_day \in DOMAIN days_map
  THEN days_of_range(days_map[start_day], days_map[end_day])
  ELSE <<>>

\* "Handle day ranges": the text split at the range words
days_of_range_parts(parts) ==
  IF Len(parts) = 2 THEN days_between(strip(parts[1]), strip(parts[2]))
  ELSE <<>>

\* parse_days that adds the days of the list to the days of the range
days_of_text_merged(day_str) ==
  (IF \E word \in {s_THRU, s_THROUGH, <<"-">>} : Contains(day_str, word)
   THEN days_of_range_parts(re_split(<<s_THRU, s_THROUGH, <<"-">> >>, day_str))
   ELSE <<>>)
  \o (IF \E sep \in {<<"&">>, <<",">>, s_AND} : Contains(day_str, sep)
      THEN DaysOfParts(re_split(<< <<"&">>, <<",">>, s_AND>>, day_str))
      ELSE DaysOfParts(re_findall(day_pattern, day_str)))

\* the three branches of parse_days on the upper-cased, stripped text
days_of_text(day_str) ==
  IF \E word \in {s_THRU, s_THROUGH, <<"-">>} : Contains(day_str, word)
  THEN days_of_range_parts(re_split(<<s_THRU, s_THROUGH, <<"-">> >>, day_str))
  ELSE IF \E sep \in {<<"&">>, <<",">>, s_AND} : Contains(day_str, sep)
  THEN DaysOfParts(re_split(<< <<"&">>, <<",">>, s_AND>>, day_str))
  ELSE DaysOfParts(re_findall(day_pattern, day_str))

parse_days(day_str) == sorted_set(days_of_text(strip(upper(day_str))))

\* one clock time of the rule-level pattern,  \d{1,2}:?\d{0,2}\s*[AP]M
TimeTokTries ==
  << <<2, 1, 2>>, <<2, 1, 1>>, <<2, 1, 0>>, <<2, 0, 2>>, <<2, 0, 1>>,
     <<2, 0, 0>>, <<1, 1, 2>>, <<1, 1, 1>>, <<1, 1, 0>>, <<1, 0, 2>>,
     <<1, 0, 1>>, <<1, 0, 0>> >>

TimeTokFits(s, i, try) ==
  /\ DigitsAt(s, i, try[1])
  /\ try[2] = 1 => At(s, i + try[1]) = ":"
  /\ DigitsAt(s, i + try[1] + try[2], try[3])
  /\ At(s, PeriodAt(s, i, try)) \in {"A", "P"}
  /\ At(s, PeriodAt(s, i, try) + 1) = "M"

TimeTokTry(s, i, k) ==
  IF k = 0 THEN 0 ELSE PeriodAt(s, i, TimeTokTries[k]) + 2

\* the position after the clock time matched at i, 0 when none matches
TimeTokEnd(s, i) ==
  TimeTokTry(s, i,
    FirstOf({k \in 1..Len(TimeTokTries) : TimeTokFits(s, i, TimeTokTries[k])}))

\* greedy [-TO]+
RECURSIVE SkipConnector(_, _)
SkipConnector(s, i) ==
  IF At(s, i) \in {"-", "T", "O"} THEN SkipConnector(s, i + 1) ELSE i

\* \s*<time> after a connector that ran from k to l
AfterConnector(s, k, l) ==
  IF l = k THEN 0 ELSE TimeTokEnd(s, SkipSpaces(s, l))

\* \s*[-TO]+\s*<time> after a first clock time that ended at e1
AfterFirstTime(s, e1) ==
  IF e1 = 0 THEN 0
  ELSE AfterConnector(s, SkipSpaces(s, e1),
                      SkipConnector(s, SkipSpaces(s, e1)))

\* <time>\s*[-TO]+\s*<time> matched at position i: the position after the
\* match, 0 when it does not match there
TimeRangeEnd(s, i) == AfterFirstTime(s, TimeTokEnd(s, i))

TimeRangeMatch(s, i0) ==
  IF i0 = 0 THEN <<>> ELSE <<SubSeq(s, i0, TimeRangeEnd(s, i0) - 1)>>

\* the search that returns the last match of the text instead of the first
time_range_search_last(s) ==
  IF {i \in 1..Len(s) : TimeRangeEnd(s, i) # 0} = {} THEN <<>>
  ELSE TimeRangeMatch(s, Max({i \in 1..Len(s) : TimeRangeEnd(s, i) # 0}))

\* re.search(time_pattern, rule_text): <<matched substring>>, or <<>>
time_range_search(s) ==
  TimeRangeMatch(s, FirstOf({i \in 1..Len(s) : TimeRangeEnd(s, i) # 0}))

\* HOUR\s*PARKING stands at position j
HourParkingAt(s, j) ==
  /\ StartsWithAt(s, j, s_HOUR)
  /\ StartsWithAt(s, SkipSpaces(s, j + Len(s_HOUR)), s_PARKING)

\* re.search(r'\d+\s*HOUR\s*PARKING', rule_text) finds a match
hour_parking_search(s) ==
  \E i \in 1..Len(s) :
    IsDigit(s[i]) /\ HourParkingAt(s, SkipSpaces(s, SkipDigits(s, i)))

HourGroup(s, i0) ==
  IF i0 = 0 THEN <<>> ELSE SubSeq(s, i0, SkipDigits(s, i0) - 1)

\* re.search(r'(\d+)\s*HOUR', rule_text).group(1), <<>> when there is no match
hour_search(s) ==
  HourGroup(s,
    FirstOf({i \in 1..Len(s) :
               /\ IsDigit(s[i])
               /\ StartsWithAt(s, SkipSpaces(s, SkipDigits(s, i)), s_HOUR)}))

\* the cascade with STREET CLEANING tested before NO PARKING
rule_type_of_cleaningFirst(rule_text) ==
  IF Contains(rule_text, s_NO_STOPPING) THEN "NO_STOPPING"
  ELSE IF Contains(rule_text, s_NO_STANDING) THEN "NO_STANDING"
  ELSE IF Contains(rule_text, s_STREET_CLEANING) THEN "STREET_CLEANING"
  ELSE IF Contains(rule_text, s_NO_PARKING) THEN "NO_PARKING"
  ELSE IF hour_parking_search(rule_text) THEN "METERED"
  ELSE "UNKNOWN"

\* the restriction type cascade of parse_rule
rule_type_of(rule_text) ==
  IF Contains(rule_text, s_NO_STOPPING) THEN "NO_STOPPING"
  ELSE IF Contains(rule_text, s_NO_STANDING) THEN "NO_STANDING"
  ELSE IF Contains(rule_text, s_NO_PARKING) THEN "NO_PARKING"
  ELSE IF Contains(rule_text, s_STREET_CLEANING) THEN "STREET_CLEANING"
  ELSE IF hour_parking_search(rule_text) THEN "METERED"
  ELSE "UNKNOWN"

\* int(hours_match.group(1)) when the looser pattern matched, else None
hours_limit_of_group(digits) ==
  IF digits # <<>> THEN <<int(digits)>> ELSE <<>>

\* the hours_limit local of parse_rule; it is read only for a METERED rule
hours_limit_of(rule_text) == hours_limit_of_group(hour_search(rule_text))

\* the time_range local of parse_rule
time_range_of(time_match) ==
  IF time_match # <<>> THEN parse_time_range(time_match[1]) ELSE <<>>

\* the exceptions local of parse_rule
exceptions_of(rule_text) ==
  IF Contains(rule_text, s_EXCEPT)
  THEN parse_days(re_split(<<s_EXCEPT>>, rule_text)[2])
  ELSE <<>>

\* the dict parse_rule returns for the upper-cased, stripped text
rule_dict(rule_text, rule_type) ==
  [original_text |-> rule_text,
   type |-> rule_type,
   days |-> parse_days(rule_text),
   time_range |-> time_range_of(time_range_search(rule_text)),
   exceptions |-> exceptions_of(rule_text),
   hours_limit |-> IF rule_type = "METERED"
                   THEN hours_limit_of(rule_text) ELSE <<>>,
   parsed |-> TRUE,
   confidence |-> IF rule_type # "UNKNOWN" THEN 9 ELSE 5]

parse_upper(rule_text) == rule_dict(rule_text, rule_type_of(rule_text))

\* the body of parse_rule (the function the cached decorator wraps)
parse_rule_body(rule_text) ==
  IF rule_text = <<>>
  THEN [original_text |-> <<>>, type |-> "UNKNOWN", parsed |-> FALSE]
  ELSE parse_upper(strip(upper(rule_text)))

(***************************************************************************)
(* Inputs: sign texts, pre-parsed rules, query times                       *)
(***************************************************************************)
t_8AM == <<"8", "A", "M">>
t_6PM == <<"6", "P", "M">>
t_9AM == <<"9", "A", "M">>
t_7PM == <<"7", "P", "M">>
t_10PM == <<"1", "0", "P", "M">>
t_2AM == <<"2", "A", "M">>
t_11AM == <<"1", "1", "A", "M">>
t_1230PM == <<"1", "2", ":", "3", "0", "P", "M">>
t_1130AM == <<"1", "1", ":", "3", "0", "A", "M">>
t_100PM == <<"1", ":", "0", "0", "P", "M">>
t_13PM == <<"1", "3", "P", "M">>
t_2PM == <<"2", "P", "M">>
t_7AM == <<"7", "A", "M">>
t_10AM == <<"1", "0", "A", "M">>
t_4PM == <<"4", "P", "M">>
t_12AM == <<"1", "2", "A", "M">>
t_12PM == <<"1", "2", "P", "M">>
t_875AM == <<"8", ":", "7", "5", "A", "M">>
s_ANYTIME == <<"A", "N", "Y", "T", "I", "M", "E">>
s_LIMIT == <<"L", "I", "M", "I", "T">>
s_HOLIDAYS == <<"H", "O", "L", "I", "D", "A", "Y", "S">>
s_LOADING_ZONE == <<"L", "O", "A", "D", "I", "N", "G", " ", "Z", "O", "N", "E">>
s_TO == <<"T", "O">>
s_lower_sign ==
  <<"n", "o", " ", "p", "a", "r", "k", "i", "n", "g", " ", "8", "a", "m", "-",
    "6", "p", "m", " ", "m", "o", "n", " ", "t", "h", "r", "u", " ", "f", "r",
    "i">>

Hyphen == <<"-">>
Amp == <<"&">>

\* the words of a sign joined by single spaces
RECURSIVE Phrase(_)
Phrase(ws) ==
  IF ws = <<>> THEN <<>>
  ELSE IF Len(ws) = 1 THEN ws[1]
  ELSE ws[1] \o <<" ">> \o Phrase(Tail(ws))

\* a hyphenated time range
Span(a, b) == a \o Hyphen \o b

\* the restriction keywords of signs with the type each stands for, in the
\* order of the cascade
s_2_HOUR_PARKING == Phrase(<<<<"2">>, s_HOUR, s_PARKING>>)

Keywords ==
  <<[txt |-> s_NO_STOPPING, type |-> "NO_STOPPING"],
    [txt |-> s_NO_STANDING, type |-> "NO_STANDING"],
    [txt |-> s_NO_PARKING, type |-> "NO_PARKING"],
    [txt |-> s_STREET_CLEANING, type |-> "STREET_CLEANING"],
    [txt |-> s_2_HOUR_PARKING, type |-> "METERED"]>>

\* time ranges of signs with the times they denote
Spans ==
  {[txt |-> Span(t_8AM, t_6PM), range |-> <<480, 1080>>],
   [txt |-> Span(t_10PM, t_2AM), range |-> <<1320, 120>>],
   [txt |-> Span(t_11AM, t_1230PM), range |-> <<660, 750>>]}

\* weekdays used as the ends of day ranges and as the members of day lists
SignDays == {0, 1, 4, 5}

\* '<restriction keyword> <time>-<time> <D1> THRU <D2>'
ThruSign(kw, sp, d1, d2) ==
  Phrase(<<kw.txt, sp.txt, ShortDays[d1 + 1], s_THRU, ShortDays[d2 + 1]>>)

ThruSigns ==
  {ThruSign(Keywords[k], sp, d1, d2) :
     k \in 1..Len(Keywords), sp \in Spans, d1 \in SignDays, d2 \in SignDays}

\* '<restriction keyword> <time>-<time> <D1> & <D2> [STREET CLEANING]'
AmpSign(kw, sp, d1, d2, tail) ==
  Phrase(<<kw.txt, sp.txt, ShortDays[d1 + 1], Amp, ShortDays[d2 + 1]>>
           \o tail)

AmpTails == {<<>>, <<s_STREET_CLEANING>>}

AmpSigns ==
  {AmpSign(Keywords[k], sp, d1, d2, tail) :
     k \in {2, 3}, sp \in Spans, d1 \in SignDays, d2 \in SignDays,
     tail \in AmpTails}

\* signs naming two restriction keywords, in either order
PairSign(a, b) == Phrase(<<Keywords[a].txt, Keywords[b].txt>>)

PairSigns == {PairSign(a, b) : a \in 1..Len(Keywords), b \in 1..Len(Keywords)}

sign_NoParkingMonThruFri ==
  Phrase(<<s_NO_PARKING, Span(t_8AM, t_6PM), s_MON, s_THRU, s_FRI>>)
sign_StreetCleaning ==
  Phrase(<<s_NO_PARKING, Span(t_11AM, t_1230PM), s_TUE, Amp, s_FRI,
           s_STREET_CLEANING>>)
sign_Metered ==
  Phrase(<<s_2_HOUR_PARKING, Span(t_9AM, t_7PM), s_EXCEPT, s_SUNDAY>>)
sign_TwoHourGroups ==
  Phrase(<<<<"1">>, s_HOUR, s_LIMIT, s_2_HOUR_PARKING, Span(t_9AM, t_7PM)>>)
sign_HourLimitNoParking ==
  Phrase(<<s_NO_PARKING, <<"3">>, s_HOUR, s_LIMIT>>)
sign_TenHourParking == <<"1", "0">> \o s_HOUR \o s_PARKING
sign_Anytime == Phrase(<<s_NO_STANDING, s_ANYTIME>>)
sign_NoStandingMon == Phrase(<<s_NO_STANDING, s_MON>>)
sign_Overnight == Phrase(<<s_NO_STOPPING, Span(t_10PM, t_2AM), s_MON, s_THRU, s_FRI>>)
sign_TwoWindows ==
  Phrase(<<s_NO_STOPPING, Span(t_7AM, t_10AM), Span(t_4PM, t_7PM)>>)
sign_BadHour == Phrase(<<s_NO_PARKING, Span(t_13PM, t_2PM)>>)
sign_BadMinute == Phrase(<<s_NO_PARKING, Span(t_875AM, t_9AM)>>)
sign_To == Phrase(<<s_NO_PARKING, t_8AM, s_TO, t_6PM, s_SATURDAY>>)
sign_ExceptList ==
  Phrase(<<s_2_HOUR_PARKING, s_EXCEPT, s_SAT, s_AND, s_SUN, s_HOLIDAYS>>)
sign_ExceptTwice ==
  Phrase(<<s_NO_PARKING, s_EXCEPT, s_MON, s_EXCEPT, s_TUE>>)
sign_ExceptWrap == Phrase(<<s_NO_PARKING, s_EXCEPT, s_SAT, s_THRU, s_MON>>)
sign_Blank == <<" ", " ">>

OtherSigns ==
  {sign_StreetCleaning, sign_Metered, sign_TwoHourGroups,
   sign_HourLimitNoParking, sign_TenHourParking, sign_Anytime,
   sign_NoStandingMon, sign_Overnight, sign_TwoWindows, sign_BadHour,
   sign_BadMinute,
   sign_To, sign_ExceptList, sign_ExceptTwice, sign_ExceptWrap, sign_Blank, s_LOADING_ZONE,
   s_lower_sign, <<>>}

\* the texts parse_rule is called with
RuleTexts ==
  ThruSigns \cup AmpSigns \cup PairSigns \cup OtherSigns
    \cup {Keywords[k].txt : k \in 1..Len(Keywords)}

\* day range separators
RangeSeps ==
  {<<" ">> \o s_THRU \o <<" ">>, <<" ">> \o s_THROUGH \o <<" ">>, Hyphen,
   <<" ", "-", " ">>}

\* 'D1 THRU D2', 'D1 THROUGH D2', 'D1-D2' over every day token
DayRangeText(tok1, sep, tok2) == tok1 \o sep \o tok2

DayRangeTexts ==
  {DayRangeText(day_pattern[a], sep, day_pattern[b]) :
     a \in 1..Len(day_pattern), b \in 1..Len(day_pattern), sep \in RangeSeps}

\* the texts parse_days is called with
DayTexts ==
  DayRangeTexts
    \cup {Phrase(<<s_TUE, Amp, s_THU>>), s_SATURDAY,
          <<"M", "O", "N", ",", "W", "E", "D", ",", "F", "R", "I">>,
          Phrase(<<s_SAT, s_AND, s_SUN>>), Phrase(<<s_MON, s_TUE, s_WED>>),
          Phrase(<<s_FRI, s_MON, s_FRI>>),
          Phrase(<<s_MON, s_THRU, s_WED, Amp, s_FRI>>),
          Phrase(<<s_TUE, Amp, s_THU, s_SAT>>),
          Phrase(<<s_SATURDAY, s_SUN>>),
          sign_NoParkingMonThruFri, sign_NoStandingMon, <<>>}

\* clock times of signs with the minute of the day each denotes
Clocks ==
  {[txt |-> t_8AM, minutes |-> 480], [txt |-> t_6PM, minutes |-> 1080],
   [txt |-> t_1130AM, minutes |-> 690], [txt |-> t_100PM, minutes |-> 780],
   [txt |-> t_10PM, minutes |-> 1320], [txt |-> t_2AM, minutes |-> 120],
   [txt |-> t_12AM, minutes |-> 0], [txt |-> t_12PM, minutes |-> 720],
   [txt |-> t_1230PM, minutes |-> 750]}

\* '<time>-<time>' over the clock times
ClockSpans == {Span(a.txt, b.txt) : a \in Clocks, b \in Clocks}

\* the texts parse_time_range is called with
TimeTexts ==
  ClockSpans \cup
  {Span(t_8AM, t_6PM), Span(t_1130AM, t_100PM), Span(t_10PM, t_2AM),
   Span(t_13PM, t_2PM), Span(t_875AM, t_9AM), t_8AM,
   Phrase(<<t_8AM, s_TO, t_6PM>>), <<>>}

DayWindow == <<480, 1080>>
NightWindow == <<1320, 120>>
Weekdays == <<0, 1, 2, 3, 4>>

\* regulations that are already parsed (dicts without a description)
rule_WeekdayNoParking ==
  [type |-> "NO_PARKING", days |-> Weekdays, time_range |-> DayWindow,
   exceptions |-> <<>>, confidence |-> 9]
rule_CleaningExceptSat ==
  [type |-> "STREET_CLEANING", days |-> <<>>, time_range |-> DayWindow,
   exceptions |-> <<5>>, confidence |-> 9]
rule_WeekendNight ==
  [type |-> "NO_STOPPING", days |-> <<5, 6>>, time_range |-> NightWindow,
   exceptions |-> <<>>, confidence |-> 9]
rule_Metered ==
  [type |-> "METERED", days |-> <<>>, time_range |-> <<540, 1140>>,
   exceptions |-> <<6>>, hours_limit |-> <<2>>, confidence |-> 9]
rule_NoWindow ==
  [type |-> "NO_STANDING", days |-> <<0>>, time_range |-> <<>>,
   exceptions |-> <<>>, confidence |-> 9]
rule_NightExceptMon ==
  [type |-> "NO_STANDING", days |-> Weekdays, time_range |-> NightWindow,
   exceptions |-> <<0>>, confidence |-> 9]
rule_Bare == [type |-> "UNKNOWN", days |-> <<>>, time_range |-> NightWindow]

ParsedRules ==
  {rule_WeekdayNoParking, rule_CleaningExceptSat, rule_WeekendNight,
   rule_Metered, rule_NoWindow, rule_NightExceptMon, rule_Bare}

\* regulations given as description strings
DescribedRules ==
  {[description |-> d] :
     d \in {sign_NoParkingMonThruFri, sign_Overnight, sign_Metered,
            sign_Anytime, sign_BadHour, sign_TwoWindows, <<>>}}

RuleInputs == ParsedRules \cup DescribedRules

\* the body of parse_rule evaluated once for each text it is called with
parse_rule_result ==
  [t \in RuleTexts \cup {r.description : r \in DescribedRules} |->
     parse_rule_body(t)]

\* the longest regulations list
MaxRules == 2

RuleLists == UNION {[1..n -> RuleInputs] : n \in 0..MaxRules}

\* query times: Monday, Saturday, Sunday at 01:00, 02:00, 05:00, 08:00,
\* 12:00, 14:00, 18:00, 22:00, 23:30
CheckTimes ==
  [weekday : {0, 5, 6},
   time : {60, 120, 300, 480, 720, 840, 1080, 1320, 1410}]

\* the most calls of parse_rule with one text
MaxCalls == 2

\* the most steps of the clock
MaxTicks == 1

(***************************************************************************)
(* CacheManager (in-memory mode: settings.redis_url is None) and the       *)
(* cached decorator                                                        *)
(***************************************************************************)
\* dict.get(k, default); a key the dict lacks and a value None both give the
\* default where the source tests truthiness
Get(d, k, default) == IF k \in DOMAIN d THEN d[k] ELSE default

\* CacheManager._generate_key: one key per prefix and argument string
generate_key(prefix, args) == <<prefix, args>>

\* cache.get that hands out the stored (data, expiry) pair
cache_get_pair(mc, key, tnow) ==
  IF key \in DOMAIN mc /\ tnow < mc[key].expiry THEN <<mc[key]>> ELSE <<>>

\* cache.get: <<data>> for a live entry, <<>> for None
cache_get(mc, key, tnow) ==
  IF key \in DOMAIN mc /\ tnow < mc[key].expiry THEN <<mc[key].data>> ELSE <<>>

\* memory_cache after cache.get: an expired entry is deleted
cache_after_get(mc, key, tnow) ==
  IF key \in DOMAIN mc /\ ~(tnow < mc[key].expiry)
  THEN [k \in DOMAIN mc \ {key} |-> mc[k]]
  ELSE mc

\* json.dumps(value) succeeds: a parse result holding datetime.time objects
\* in time_range is not JSON serializable
json_serializable(value) == Get(value, "time_range", <<>>) = <<>>

\* memory_cache after cache.set(key, value, ttl)
cache_set(mc, key, value, ttl, tnow) ==
  IF json_serializable(value)
  THEN [k \in DOMAIN mc \cup {key} |->
          IF k = key THEN [data |-> value, expiry |-> tnow + ttl] ELSE mc[k]]
  ELSE mc

\* the patterns cache.delete is called with, each as the key prefix it names:
\* "" stands for the default pattern '*', which every key matches
DeletePatterns == {"", "parking_rule", "parking_query"}

\* pattern.replace('*', '') in k
key_matches(pattern, key) == pattern = "" \/ pattern = key[1]

\* memory_cache after cache.delete(pattern)
cache_delete(mc, pattern) ==
  [k \in {k \in DOMAIN mc : ~key_matches(pattern, k)} |-> mc[k]]

\* a cached wrapper that stores a result only if it holds something
cached_skipsEmpty(mc, tnow, cache_key, ttl, result) ==
  IF cache_get(mc, cache_key, tnow) # <<>>
  THEN [ret |-> cache_get(mc, cache_key, tnow)[1],
        cache |-> cache_after_get(mc, cache_key, tnow),
        ran |-> FALSE]
  ELSE [ret |-> result,
        cache |-> IF Get(result, "items", <<result>>) = <<>>
                  THEN cache_after_get(mc, cache_key, tnow)
                  ELSE cache_set(cache_after_get(mc, cache_key, tnow),
                                 cache_key, result, ttl, tnow),
        ran |-> TRUE]

\* the wrapper of the cached decorator around a function whose call would
\* return result: the value returned, the cache afterwards and whether the
\* wrapped function ran
cached(mc, tnow, cache_key, ttl, result) ==
  IF cache_get(mc, cache_key, tnow) # <<>>
  THEN [ret |-> cache_get(mc, cache_key, tnow)[1],
        cache |-> cache_after_get(mc, cache_key, tnow),
        ran |-> FALSE]
  ELSE [ret |-> result,
        cache |-> cache_set(cache_after_get(mc, cache_key, tnow), cache_key,
                            result, ttl, tnow),
        ran |-> TRUE]

\* @cached(prefix="parking_rule", ttl=3600)
ParseRuleTTL == 3600

\* parser.parse_rule(rule_text) through the cached wrapper
parse_rule(mc, tnow, rule_text) ==
  cached(mc, tnow, generate_key("parking_rule", rule_text), ParseRuleTTL,
         parse_rule_result[rule_text])

(***************************************************************************)
(* ParkingService.check_parking_availability                               *)
(***************************************************************************)
BlockingTypes == {"NO_PARKING", "NO_STANDING", "NO_STOPPING", "STREET_CLEANING"}

\* the day test without its guard on a non-empty days list
day_skips_unguarded(parsed, current_day) ==
  current_day \notin Range(Get(parsed, "days", <<>>))

\* the day test that also lets a rule through on the day after one of its days
day_skips_previousDay(parsed, current_day) ==
  /\ Get(parsed, "days", <<>>) # <<>>
  /\ current_day \notin Range(parsed.days)
  /\ (current_day + 6) % 7 \notin Range(parsed.days)

\* "Skip if rule doesn't apply to current day"
day_skips(parsed, current_day) ==
  /\ Get(parsed, "days", <<>>) # <<>>
  /\ current_day \notin Range(parsed.days)

\* the exception test that yields to a weekday listed in days
exception_skips_unlessListed(parsed, current_day) ==
  /\ current_day \in Range(Get(parsed, "exceptions", <<>>))
  /\ current_day \notin Range(Get(parsed, "days", <<>>))

\* "Check exceptions (days when rule doesn't apply)"
exception_skips(parsed, current_day) ==
  current_day \in Range(Get(parsed, "exceptions", <<>>))

\* the time test without the branch for ranges that cross midnight
time_applies_sameDay(start_time, end_time, current_time) ==
  start_time <= current_time /\ current_time <= end_time

\* "Handle time ranges that cross midnight"
time_applies(start_time, end_time, current_time) ==
  IF start_time <= end_time
  THEN start_time <= current_time /\ current_time <= end_time
  ELSE current_time >= start_time \/ current_time <= end_time

\* the test that takes a rule without a time range to hold all day
rule_active_allDay(parsed, current_day, current_time) ==
  /\ ~day_skips(parsed, current_day)
  /\ ~exception_skips(parsed, current_day)
  /\ \/ Get(parsed, "time_range", <<>>) = <<>>
     \/ time_applies(parsed.time_range[1], parsed.time_range[2], current_time)

\* the rule is active at the query time: neither continue is taken, it has a
\* time range and the time range applies
rule_active(parsed, current_day, current_time) ==
  /\ ~day_skips(parsed, current_day)
  /\ ~exception_skips(parsed, current_day)
  /\ Get(parsed, "time_range", <<>>) # <<>>
  /\ time_applies(parsed.time_range[1], parsed.time_range[2], current_time)

\* the loop body with a blocking rule that forgets to set restriction_type
apply_rule_keepsType(st, parsed, current_day, current_time) ==
  LET rule_type == Get(parsed, "type", "None")
  IN  IF rule_active(parsed, current_day, current_time)
      THEN IF rule_type \in BlockingTypes
           THEN [allowed |-> FALSE, restriction_type |-> st.restriction_type]
           ELSE IF rule_type = "METERED"
           THEN [allowed |-> st.allowed, restriction_type |-> "METERED"]
           ELSE st
      ELSE st

\* the loop body that keeps the restriction_type an earlier rule has set
apply_rule_keepsFirst(st, parsed, current_day, current_time) ==
  LET rule_type == Get(parsed, "type", "None")
      kept == IF st.restriction_type = "None" THEN rule_type
              ELSE st.restriction_type
  IN  IF rule_active(parsed, current_day, current_time)
      THEN IF rule_type \in BlockingTypes
           THEN [allowed |-> FALSE, restriction_type |-> kept]
           ELSE IF rule_type = "METERED"
           THEN [allowed |-> st.allowed, restriction_type |-> kept]
           ELSE st
      ELSE st

\* the loop body with an active METERED rule that sets allowed back to true
apply_rule_meteredAllows(st, parsed, current_day, current_time) ==
  LET rule_type == Get(parsed, "type", "None")
  IN  IF rule_active(parsed, current_day, current_time)
      THEN IF rule_type \in BlockingTypes
           THEN [allowed |-> FALSE, restriction_type |-> rule_type]
           ELSE IF rule_type = "METERED"
           THEN [allowed |-> TRUE, restriction_type |-> "METERED"]
           ELSE st
      ELSE st

\* one iteration of the loop body after the rule is parsed: the new values of
\* allowed and restriction_type
apply_rule(st, parsed, current_day, current_time) ==
  LET rule_type == Get(parsed, "type", "None")
  IN  IF rule_active(parsed, current_day, current_time)
      THEN IF rule_type \in BlockingTypes
           THEN [allowed |-> FALSE, restriction_type |-> rule_type]
           ELSE IF rule_type = "METERED"
           THEN [allowed |-> st.allowed, restriction_type |-> "METERED"]
           ELSE st
      ELSE st

\* the score recorded only for a rule that has a time range
record_confidence_ifWindow(scores, parsed) ==
  IF Get(parsed, "time_range", <<>>) # <<>>
  THEN Append(scores, Get(parsed, "confidence", 5))
  ELSE scores

\* confidence_scores.append(parsed.get('confidence', 0.5)), in tenths
record_confidence(scores, parsed) ==
  Append(scores, Get(parsed, "confidence", 5))

\* "Calculate average confidence": the mean as numerator and denominator,
\* in tenths
RECURSIVE SumSeq(_)
SumSeq(xs) == IF xs = <<>> THEN 0 ELSE Head(xs) + SumSeq(Tail(xs))

\* the mean that is 0 for an empty list
avg_confidence_zeroDefault(scores) ==
  IF scores # <<>> THEN [num |-> SumSeq(scores), den |-> Len(scores)]
  ELSE [num |-> 0, den |-> 1]

avg_confidence(scores) ==
  IF scores # <<>> THEN [num |-> SumSeq(scores), den |-> Len(scores)]
  ELSE [num |-> 5, den |-> 1]

(***************************************************************************)
(* BaseAPIClient and OpenCurbClient (services.py)                          *)
(***************************************************************************)
\* what one self.client.request(...) followed by raise_for_status() does:
\* a good response, an HTTP error status, a transport-level RequestError
HttpOutcomes == {"ok", "status_error", "request_error"}

\* stop=stop_after_attempt(3)
MaxAttempts == 3

\* retry=retry_if_exception_type(httpx.RequestError)
RetriedExceptions == {"RequestError"}

\* @circuit(failure_threshold=5, recovery_timeout=60)
FailureThreshold == 5
RecoveryTimeout == 60

\* what the API would do at each attempt of one call
Scripts == [1..MaxAttempts -> HttpOutcomes]

\* the circuit breaker before any failure
BreakerClosed == [failures |-> 0, open |-> FALSE, opened_at |-> 0]

\* the body of _make_request on one attempt: the response it returns or the
\* exception it raises
request_body(ready, outcome) ==
  IF ~ready THEN [kind |-> "RuntimeError"]
  ELSE IF outcome = "ok" THEN [kind |-> "response"]
  ELSE IF outcome = "status_error"
  THEN [kind |-> "ExternalAPIException", status_code |-> 500]
  ELSE [kind |-> "ExternalAPIException", status_code |-> 503]

\* the open circuit refuses calls until recovery_timeout has passed
breaker_blocks(br, tnow) == br.open /\ tnow < br.opened_at + RecoveryTimeout

\* the circuit after a call that went through
breaker_after(br, tnow, failed) ==
  IF failed
  THEN IF br.failures + 1 >= FailureThreshold
       THEN [failures |-> br.failures + 1, open |-> TRUE, opened_at |-> tnow]
       ELSE [failures |-> br.failures + 1, open |-> br.open,
             opened_at |-> br.opened_at]
  ELSE BreakerClosed

\* one attempt through the circuit decorator: what comes out, the HTTP calls
\* made, the circuit afterwards
circuit_call(br, tnow, ready, outcome) ==
  IF breaker_blocks(br, tnow)
  THEN [ret |-> [kind |-> "CircuitBreakerError"], http_calls |-> 0,
        breaker |-> br]
  ELSE [ret |-> request_body(ready, outcome),
        http_calls |-> IF ready THEN 1 ELSE 0,
        breaker |-> breaker_after(br, tnow,
                      request_body(ready, outcome).kind # "response")]

\* the retry decorator: attempt n came out as r after made HTTP calls; an
\* exception of a retried type starts the next attempt until the attempts
\* are used up, anything else ends the call
RECURSIVE attempt(_, _, _, _, _, _)
RECURSIVE attempt_done(_, _, _, _, _, _)
attempt_done(n, r, tnow, ready, script, made) ==
  IF r.ret.kind \in RetriedExceptions
  THEN IF n < MaxAttempts
       THEN attempt(n + 1, r.breaker, tnow, ready, script,
                    made + r.http_calls)
       ELSE [ret |-> [kind |-> "RetryError"],
             http_calls |-> made + r.http_calls, breaker |-> r.breaker]
  ELSE [ret |-> r.ret, http_calls |-> made + r.http_calls,
        breaker |-> r.breaker]

attempt(n, br, tnow, ready, script, made) ==
  attempt_done(n, circuit_call(br, tnow, ready, script[n]), tnow, ready,
               script, made)

\* BaseAPIClient._make_request through both decorators
make_request(br, tnow, ready, script) == attempt(1, br, tnow, ready, script, 0)

\* "Validate coordinates" and the radius test
valid_coordinates(args) ==
  -90 <= args.lat /\ args.lat <= 90 /\ -180 <= args.lon /\ args.lon <= 180

valid_radius(args) == 50 <= args.radius /\ args.radius <= 2000

\* what a good response holds: a dict with features, a dict with an empty
\* features list, a JSON value without features, a body that is not JSON
Contents == {"features", "empty_features", "no_features", "not_json"}

\* a list, as a dict-like value holding its items
ListOf(items) == [items |-> items]

\* the features of a response that holds some
SomeFeatures == <<"segment">>

\* lines 98-115: the list returned after the request came out as req
features_of(req, content) ==
  IF req.ret.kind = "response" /\ content = "features"
  THEN ListOf(SomeFeatures)
  ELSE ListOf(<<>>)

fetched(req, content) ==
  [ret |-> [kind |-> "list", value |-> features_of(req, content)],
   http_calls |-> req.http_calls, breaker |-> req.breaker]

\* the body of get_parking_data (the function the cached decorator wraps)
get_parking_data_body(args, br, tnow, ready, script, content) ==
  IF ~valid_coordinates(args) \/ ~valid_radius(args)
  THEN [ret |-> [kind |-> "ValidationException"], http_calls |-> 0,
        breaker |-> br]
  ELSE fetched(make_request(br, tnow, ready, script), content)

\* @cached(prefix="opencurb_data", ttl=300)
OpenCurbTTL == 300

\* the cached wrapper around a body that came out, or would come out, as
\* body: an exception of the body passes through and stores nothing
cached_fetch(mc, tnow, cache_key, br, body) ==
  IF cache_get(mc, cache_key, tnow) # <<>>
  THEN [ret |-> [kind |-> "list",
                 value |-> cached(mc, tnow, cache_key, OpenCurbTTL,
                                  ListOf(<<>>)).ret],
        cache |-> cache_after_get(mc, cache_key, tnow),
        http_calls |-> 0, breaker |-> br]
  ELSE IF body.ret.kind # "list"
  THEN [ret |-> body.ret, cache |-> cache_after_get(mc, cache_key, tnow),
        http_calls |-> body.http_calls, breaker |-> body.breaker]
  ELSE [ret |-> body.ret,
        cache |-> cached(mc, tnow, cache_key, OpenCurbTTL,
                         body.ret.value).cache,
        http_calls |-> body.http_calls, breaker |-> body.breaker]

\* OpenCurbClient.get_parking_data(lat, lon, radius) through the cached
\* wrapper
get_parking_data(mc, tnow, args, br, ready, script, content) ==
  cached_fetch(mc, tnow, generate_key("opencurb_data", args), br,
               get_parking_data_body(args, br, tnow, ready, script, content))

\* the arguments get_parking_data is called with: a place in New York, and
\* a latitude, a longitude and radii out of range
args_NewYork == [lat |-> 40, lon |-> -74, radius |-> 500]

ApiArgs ==
  {args_NewYork,
   [lat |-> 40, lon |-> -74, radius |-> 2000],
   [lat |-> 91, lon |-> -74, radius |-> 500],
   [lat |-> 40, lon |-> -181, radius |-> 500],
   [lat |-> 40, lon |-> -74, radius |-> 49],
   [lat |-> 40, lon |-> -74, radius |-> 2001]}

NoArgs == [lat |-> 0, lon |-> 0, radius |-> 0]

\* the most calls of _make_request and of get_parking_data
MaxRequests == 6
MaxFetches == 3

(***************************************************************************)
(* State                                                                   *)
(***************************************************************************)
VARIABLES
  memory_cache,       \* cache.memory_cache: key -> [data, expiry]
  now,                \* datetime.now(), in seconds
  op,                 \* the operation called: "parse_rule", "parse_days",
                      \* "parse_time_range" or "check"
  text,               \* the text argument of a parser call
  regulations,        \* the regulations argument of the check
  check_time,         \* the check_time argument: [weekday, time]
  pc,                 \* "ready", "loop" (inside the for loop) or "returned"
  calls,              \* parse_rule calls made so far with text
  ran,                \* the last parse_rule call ran the wrapped function
  parsed,             \* <<the dict parse_rule returned last>>, the loop's
                      \* local parsed for an already parsed rule
  days_ret,           \* the list parse_days returned
  time_ret,           \* the tuple parse_time_range returned, <<>> for None
  idx,                \* the position of the for loop in regulations
  allowed,            \* locals of check_parking_availability
  restriction_type,
  confidence_scores,
  result,             \* <<[allowed, restriction_type, confidence]>> returned
  api_args,           \* the arguments of get_parking_data
  client_ready,       \* self.client is set (inside the async context manager)
  api_script,         \* what the API did, or would have done, at the attempts
                      \* of the last call
  api_content,        \* what a good response of the last call holds
  api_calls,          \* calls of the API client made so far
  http_calls,         \* HTTP requests the last call sent
  breaker,            \* the circuit breaker of _make_request
  api_ret             \* <<what the last call returned or raised>>

vars ==
  <<memory_cache, now, op, text, regulations, check_time, pc, calls, ran,
    parsed, days_ret, time_ret, idx, allowed, restriction_type,
    confidence_scores, result, api_args, client_ready, api_script,
    api_content, api_calls, http_calls, breaker, api_ret>>

cacheVars == <<memory_cache, now>>
inputVars == <<op, text, regulations, check_time>>
parserVars == <<calls, ran, days_ret, time_ret>>
checkVars == <<idx, allowed, restriction_type, confidence_scores, result>>
apiInputVars == <<api_args, client_ready>>
apiVars == <<api_script, api_content, api_calls, http_calls, breaker, api_ret>>

NoTime == [weekday |-> 0, time |-> 0]

Init ==
  /\ memory_cache = <<>>
  /\ now = 0
  /\ \/ op = "parse_rule" /\ text \in RuleTexts
        /\ regulations = <<>> /\ check_time = NoTime
        /\ api_args = NoArgs /\ client_ready = FALSE
     \/ op = "parse_days" /\ text \in DayTexts
        /\ regulations = <<>> /\ check_time = NoTime
        /\ api_args = NoArgs /\ client_ready = FALSE
     \/ op = "parse_time_range" /\ text \in TimeTexts
        /\ regulations = <<>> /\ check_time = NoTime
        /\ api_args = NoArgs /\ client_ready = FALSE
     \/ op = "check" /\ text = <<>>
        /\ regulations \in RuleLists /\ check_time \in CheckTimes
        /\ api_args = NoArgs /\ client_ready = FALSE
     \/ op = "make_request" /\ text = <<>>
        /\ regulations = <<>> /\ check_time = NoTime
        /\ api_args = NoArgs /\ client_ready \in BOOLEAN
     \/ op = "get_parking_data" /\ text = <<>>
        /\ regulations = <<>> /\ check_time = NoTime
        /\ api_args \in ApiArgs /\ client_ready \in BOOLEAN
  /\ pc = "ready"
  /\ calls = 0
  /\ ran = FALSE
  /\ parsed = <<>>
  /\ days_ret = <<>>
  /\ time_ret = <<>>
  /\ idx = 0
  /\ allowed = TRUE
  /\ restriction_type = "None"
  /\ confidence_scores = <<>>
  /\ result = <<>>
  /\ api_script = [n \in 1..MaxAttempts |-> "ok"]
  /\ api_content = "features"
  /\ api_calls = 0
  /\ http_calls = 0
  /\ breaker = BreakerClosed
  /\ api_ret = <<>>

(***************************************************************************)
(* Operations                                                              *)
(***************************************************************************)
\* await parser.parse_rule(text)
ParseRule ==
  /\ op = "parse_rule"
  /\ pc \in {"ready", "returned"}
  /\ calls < MaxCalls
  /\ \E r \in {parse_rule(memory_cache, now, text)} :
       /\ parsed' = <<r.ret>>
       /\ memory_cache' = r.cache
       /\ ran' = r.ran
  /\ calls' = calls + 1
  /\ pc' = "returned"
  /\ UNCHANGED <<now, inputVars, days_ret, time_ret, checkVars,
                 apiInputVars, apiVars>>

\* parser.parse_days(text)
ParseDays ==
  /\ op = "parse_days"
  /\ pc = "ready"
  /\ days_ret' = parse_days(text)
  /\ pc' = "returned"
  /\ UNCHANGED <<cacheVars, inputVars, calls, ran, parsed, time_ret, checkVars,
                 apiInputVars, apiVars>>

\* parser.parse_time_range(text)
ParseTimeRange ==
  /\ op = "parse_time_range"
  /\ pc = "ready"
  /\ time_ret' = parse_time_range(text)
  /\ pc' = "returned"
  /\ UNCHANGED <<cacheVars, inputVars, calls, ran, parsed, days_ret, checkVars,
                 apiInputVars, apiVars>>

\* check_parking_availability(regulations, check_time) up to the for loop
CheckStart ==
  /\ op = "check"
  /\ pc = "ready"
  /\ allowed' = TRUE
  /\ restriction_type' = "None"
  /\ confidence_scores' = <<>>
  /\ idx' = 1
  /\ pc' = "loop"
  /\ UNCHANGED <<cacheVars, inputVars, parserVars, parsed, result,
                 apiInputVars, apiVars>>

\* "Parse rule if not already parsed": the rule the loop body works on, the
\* cache afterwards and the parse_rule calls made
parse_if_needed(mc, tnow, rule, ncalls, last_ran) ==
  IF "description" \in DOMAIN rule
  THEN [call |-> parse_rule(mc, tnow, rule.description), calls |-> ncalls + 1]
  ELSE [call |-> [ret |-> rule, cache |-> mc, ran |-> last_ran],
        calls |-> ncalls]

\* one iteration of the for loop
CheckRule ==
  /\ pc = "loop"
  /\ idx <= Len(regulations)
  /\ \E r \in {parse_if_needed(memory_cache, now, regulations[idx], calls,
                                ran)} :
       /\ parsed' = <<r.call.ret>>
       /\ memory_cache' = r.call.cache
       /\ ran' = r.call.ran
       /\ calls' = r.calls
       /\ confidence_scores' =
            record_confidence(confidence_scores, r.call.ret)
       /\ \E st \in {apply_rule([allowed |-> allowed,
                                  restriction_type |-> restriction_type],
                                 r.call.ret, check_time.weekday,
                                 check_time.time)} :
            /\ allowed' = st.allowed
            /\ restriction_type' = st.restriction_type
  /\ idx' = idx + 1
  /\ UNCHANGED <<now, inputVars, pc, days_ret, time_ret, result,
                 apiInputVars, apiVars>>

\* the end of the loop: the average confidence and the return
CheckReturn ==
  /\ pc = "loop"
  /\ idx > Len(regulations)
  /\ result' = <<[allowed |-> allowed,
                  restriction_type |-> restriction_type,
                  confidence |-> avg_confidence(confidence_scores)]>>
  /\ pc' = "returned"
  /\ UNCHANGED <<cacheVars, inputVars, parserVars, parsed, idx, allowed,
                 restriction_type, confidence_scores,
                 apiInputVars, apiVars>>

\* time passes between calls, one time-to-live of a parsed rule at a step
ClockStep == ParseRuleTTL

Tick ==
  /\ pc # "loop"
  /\ now + ClockStep <= MaxTicks * ClockStep
  /\ now' = now + ClockStep
  /\ UNCHANGED <<memory_cache, inputVars, pc, parserVars, parsed, checkVars,
                 apiInputVars, apiVars>>

\* DELETE /cache: clear_cache(pattern) between two calls
ClearCache ==
  /\ pc # "loop"
  /\ memory_cache # <<>>
  /\ \E pattern \in DeletePatterns :
       memory_cache' = cache_delete(memory_cache, pattern)
  /\ UNCHANGED <<now, inputVars, pc, parserVars, parsed, checkVars,
                 apiInputVars, apiVars>>

\* await client._make_request(method, endpoint)
MakeRequest ==
  /\ op = "make_request"
  /\ api_calls < MaxRequests
  /\ \E script \in Scripts :
       /\ api_script' = script
       /\ \E r \in {make_request(breaker, now, client_ready, script)} :
            /\ api_ret' = <<r.ret>>
            /\ http_calls' = r.http_calls
            /\ breaker' = r.breaker
  /\ api_calls' = api_calls + 1
  /\ pc' = "returned"
  /\ UNCHANGED <<cacheVars, inputVars, parserVars, parsed, checkVars,
                 apiInputVars, api_content>>

\* await client.get_parking_data(lat, lon, radius)
GetParkingData ==
  /\ op = "get_parking_data"
  /\ api_calls < MaxFetches
  /\ \E script \in Scripts, content \in Contents :
       /\ api_script' = script
       /\ api_content' = content
       /\ \E r \in {get_parking_data(memory_cache, now, api_args, breaker,
                                      client_ready, script, content)} :
            /\ api_ret' = <<r.ret>>
            /\ memory_cache' = r.cache
            /\ http_calls' = r.http_calls
            /\ breaker' = r.breaker
  /\ api_calls' = api_calls + 1
  /\ pc' = "returned"
  /\ UNCHANGED <<now, inputVars, parserVars, parsed, checkVars, apiInputVars>>

Next ==
  \/ ParseRule
  \/ ParseDays
  \/ ParseTimeRange
  \/ CheckStart
  \/ CheckRule
  \/ CheckReturn
  \/ Tick
  \/ ClearCache
  \/ MakeRequest
  \/ GetParkingData

Spec == Init /\ [][Next]_vars

(***************************************************************************)
(* Properties                                                              *)
(***************************************************************************)
\* what the claims say of the inputs: the weekdays of a range D1..D2 that may
\* wrap the week, a time within a window, the dict the loop works on
WeekRange(d1, d2) == IF d1 <= d2 THEN d1..d2 ELSE (d1..6) \cup (0..d2)

Within(window, t) ==
  IF window[1] <= window[2] THEN window[1] <= t /\ t <= window[2]
  ELSE t >= window[1] \/ t <= window[2]

ParsedOf(rule) ==
  IF "description" \in DOMAIN rule THEN parse_rule_result[rule.description]
  ELSE rule

DaysOf(p) == Range(Get(p, "days", <<>>))
ExceptionsOf(p) == Range(Get(p, "exceptions", <<>>))
WindowOf(p) == Get(p, "time_range", <<>>)

\* the rule applies at the query time in the sense of the specification
Applicable(p, q) ==
  /\ DaysOf(p) = {} \/ q.weekday \in DaysOf(p)
  /\ q.weekday \notin ExceptionsOf(p)
  /\ WindowOf(p) # <<>>
  /\ Within(WindowOf(p), q.time)

ThruFamily ==
  {[text |-> ThruSign(Keywords[k], sp, d1, d2), type |-> Keywords[k].type,
    range |-> sp.range, d1 |-> d1, d2 |-> d2] :
     k \in 1..Len(Keywords), sp \in Spans, d1 \in SignDays, d2 \in SignDays}

AmpFamily ==
  {[text |-> AmpSign(Keywords[k], sp, d1, d2, tail), type |-> Keywords[k].type,
    d1 |-> d1, d2 |-> d2] :
     k \in {2, 3}, sp \in Spans, d1 \in SignDays, d2 \in SignDays,
     tail \in AmpTails}

PairFamily ==
  {[text |-> PairSign(a, b), first |-> IF a <= b THEN a ELSE b] :
     a \in 1..Len(Keywords), b \in 1..Len(Keywords)}

DayRangeFamily ==
  {[text |-> DayRangeText(day_pattern[a], sep, day_pattern[b]),
    d1 |-> days_map[day_pattern[a]], d2 |-> days_map[day_pattern[b]]] :
     a \in 1..Len(day_pattern), b \in 1..Len(day_pattern), sep \in RangeSeps}

RuleReturned == op = "parse_rule" /\ pc = "returned"
CheckReturned == op = "check" /\ pc = "returned"

\* C1: for every sign '<restriction keyword> <time>-<time> <D1> THRU <D2>'
\* parse_rule returns the weekdays D1..D2 as days, the type of the keyword,
\* the time range of the sign, parsed = true and confidence 0.9.
C1_ThruSignParsed ==
  RuleReturned =>
    \A f \in ThruFamily :
      text = f.text =>
        /\ parsed[1].days = SortedSeqOf(WeekRange(f.d1, f.d2))
        /\ parsed[1].type = f.type
        /\ parsed[1].time_range = f.range
        /\ parsed[1].parsed
        /\ parsed[1].confidence = 9

\* C2: when a blocking rule has the query weekday in its days and not in its
\* exceptions, its time range contains the query time, and no later rule of
\* the list is applicable, the check returns allowed = false with that rule's
\* type as restriction_type.
C2_BlockingRuleBlocks ==
  CheckReturned =>
    \A i \in 1..Len(regulations) :
      LET p == ParsedOf(regulations[i])
      IN  ( /\ Get(p, "type", "None") \in BlockingTypes
            /\ check_time.weekday \in DaysOf(p)
            /\ check_time.weekday \notin ExceptionsOf(p)
            /\ WindowOf(p) # <<>>
            /\ Within(WindowOf(p), check_time.time)
            /\ \A j \in (i + 1)..Len(regulations) :
                 ~Applicable(ParsedOf(regulations[j]), check_time) )
          => /\ result[1].allowed = FALSE
             /\ result[1].restriction_type = p.type

C2_Witness ==
  /\ CheckReturned
  /\ Len(regulations) = 2
  /\ regulations[1] = rule_WeekdayNoParking
  /\ check_time = [weekday |-> 0, time |-> 840]
  /\ ~Applicable(ParsedOf(regulations[2]), check_time)
  /\ result[1].allowed = FALSE
  /\ result[1].restriction_type = "NO_PARKING"

\* C3: a single regulation given as the description of a blocking sign with a
\* weekday range and a time window, checked inside the window on a weekday
\* outside the range, gives allowed = true and restriction_type = None.
C3_DescribedSignOffDay ==
  CheckReturned /\ Len(regulations) = 1 =>
    \A f \in ThruFamily :
      ( /\ "description" \in DOMAIN regulations[1]
        /\ regulations[1].description = f.text
        /\ f.type \in BlockingTypes
        /\ check_time.weekday \notin WeekRange(f.d1, f.d2)
        /\ Within(f.range, check_time.time) )
      => /\ result[1].allowed = TRUE
         /\ result[1].restriction_type = "None"

\* a step of the for loop
LoopStep == pc = "loop" /\ idx' = idx + 1

\* C4: a rule whose days are non-empty and do not contain the query weekday
\* leaves allowed and restriction_type as they were, whatever its type and
\* time range; a rule with empty days is not skipped on day grounds: free of
\* an exception and inside its time range it takes effect.
C4_DayGating ==
  [][LoopStep =>
       LET p == ParsedOf(regulations[idx])
           type == Get(p, "type", "None")
       IN  /\ (DaysOf(p) # {} /\ check_time.weekday \notin DaysOf(p))
                => allowed' = allowed /\ restriction_type' = restriction_type
           /\ ( /\ DaysOf(p) = {}
                /\ check_time.weekday \notin ExceptionsOf(p)
                /\ WindowOf(p) # <<>>
                /\ Within(WindowOf(p), check_time.time) )
                => /\ type \in BlockingTypes
                        => allowed' = FALSE /\ restriction_type' = type
                   /\ type = "METERED"
                        => allowed' = allowed /\ restriction_type' = "METERED"
    ]_vars

\* a blocking rule for Monday to Friday was processed on a Saturday inside
\* its time range and parking is still allowed
C4_Witness ==
  /\ pc = "loop"
  /\ idx = 2
  /\ regulations[1] = rule_WeekdayNoParking
  /\ check_time = [weekday |-> 5, time |-> 840]
  /\ allowed = TRUE
  /\ restriction_type = "None"

C6_StreetCleaningSign ==
  RuleReturned /\ text = sign_StreetCleaning
    => parsed[1].type = "STREET_CLEANING"

\* C7: for every sign with a hyphenated time range and a day list joined by
\* '&' parse_rule returns exactly the listed weekdays as days.
C7_AmpSignDays ==
  RuleReturned =>
    /\ \A f \in AmpFamily :
         text = f.text => parsed[1].days = SortedSeqOf({f.d1, f.d2})
    /\ text = sign_StreetCleaning => parsed[1].days = <<1, 4>>

\* C8: a rule that passes the day and exception tests and has a time range
\* (start, end) is applied iff start <= t <= end when start <= end, and iff
\* t >= start or t <= end when start > end: a blocking rule sets
\* allowed = false and its type exactly then, and changes nothing otherwise.
C8_TimeApplicability ==
  [][LoopStep =>
       LET p == ParsedOf(regulations[idx])
           t == check_time.time
           start == WindowOf(p)[1]
           end == WindowOf(p)[2]
           inside == IF start <= end THEN start <= t /\ t <= end
                 ELSE t >= start \/ t <= end
       IN  ( /\ DaysOf(p) = {} \/ check_time.weekday \in DaysOf(p)
             /\ check_time.weekday \notin ExceptionsOf(p)
             /\ WindowOf(p) # <<>>
             /\ Get(p, "type", "None") \in BlockingTypes )
           => IF inside THEN allowed' = FALSE /\ restriction_type' = p.type
              ELSE allowed' = allowed /\ restriction_type' = restriction_type
    ]_vars

\* the overnight rule (22:00, 02:00) was applied at 01:00
C8_Witness ==
  /\ pc = "loop"
  /\ idx = 2
  /\ regulations[1] = rule_WeekendNight
  /\ check_time = [weekday |-> 5, time |-> 60]
  /\ allowed = FALSE
  /\ restriction_type = "NO_STOPPING"

\* C9: parse_days of 'D1 THRU D2' (or THROUGH, or a hyphen) over day tokens
\* gives every weekday from D1 to D2, wrapping the week when D1 is after D2,
\* each once.
C9_DayRange ==
  op = "parse_days" /\ pc = "returned" =>
    \A f \in DayRangeFamily :
      text = f.text =>
        /\ Range(days_ret) = WeekRange(f.d1, f.d2)
        /\ Len(days_ret) = Cardinality(WeekRange(f.d1, f.d2))

\* 'FRI THRU MON' gave Friday, Saturday, Sunday and Monday
C9_Witness ==
  /\ op = "parse_days"
  /\ pc = "returned"
  /\ text = DayRangeText(s_FRI, <<" ">> \o s_THRU \o <<" ">>, s_MON)
  /\ Range(days_ret) = {4, 5, 6, 0}

\* the digit group of the leftmost '<digits> HOUR PARKING' of the text
MeteredDigits(s) ==
  LET ok == {i \in 1..Len(s) :
               /\ IsDigit(s[i])
               /\ LET j == SkipSpaces(s, SkipDigits(s, i))
                      k == SkipSpaces(s, j + Len(s_HOUR))
                  IN  StartsWithAt(s, j, s_HOUR) /\ StartsWithAt(s, k, s_PARKING)}
      i0 == CHOOSE i \in ok : \A j \in ok : i <= j
  IN  SubSeq(s, i0, SkipDigits(s, i0) - 1)

\* C10: hours_limit is an integer iff the type is Metered, and then it is the
\* digit group of the '<digits> HOUR PARKING' that made the rule Metered.
C10_HoursLimit ==
  RuleReturned =>
    /\ Get(parsed[1], "hours_limit", <<>>) # <<>>
         <=> parsed[1].type = "METERED"
    /\ parsed[1].type = "METERED" =>
         parsed[1].hours_limit = <<int(MeteredDigits(parsed[1].original_text))>>

\* the restriction types a rule can have
RuleTypes ==
  {"NO_STOPPING", "NO_STANDING", "NO_PARKING", "STREET_CLEANING", "METERED",
   "UNKNOWN"}

\* a time of day, in minutes since midnight
TimesOfDay == 0..1439

WellFormedRange(tr) ==
  tr = <<>> \/ (Len(tr) = 2 /\ tr[1] \in TimesOfDay /\ tr[2] \in TimesOfDay)

WellFormedDays(ds) == \A i \in 1..Len(ds) : ds[i] \in 0..6

\* a well-formed rule: the unparsed rule of the empty text, or a dict with
\* every field of its type
WellFormedRule(r) ==
  /\ r.type \in RuleTypes
  /\ r.parsed \in BOOLEAN
  /\ r.parsed =>
       /\ WellFormedDays(r.days)
       /\ WellFormedDays(r.exceptions)
       /\ WellFormedRange(r.time_range)
       /\ r.hours_limit = <<>>
            \/ (Len(r.hours_limit) = 1 /\ r.hours_limit[1] \in Nat)
       /\ r.confidence \in {5, 9}

WellFormedResult(res) ==
  /\ res.allowed \in BOOLEAN
  /\ res.restriction_type \in (RuleTypes \ {"UNKNOWN"}) \cup {"None"}
  /\ res.confidence.den > 0
  /\ 5 * res.confidence.den <= res.confidence.num
  /\ res.confidence.num <= 9 * res.confidence.den

\* C11: parse_rule returns a well-formed rule for every text, the empty
\* string, noise and out-of-range clock values included: a time that cannot be
\* parsed gives no time_range, a text that cannot be classified gives type
\* Unknown; parse_time_range returns None or two times of day; the check
\* over such rules returns a well-formed result.
C11_NeverRaises ==
  /\ RuleReturned =>
       /\ WellFormedRule(parsed[1])
       /\ text \in {sign_BadHour, sign_BadMinute}
            => parsed[1].parsed /\ parsed[1].time_range = <<>>
       /\ text \in {s_LOADING_ZONE, sign_Blank, <<>>}
            => parsed[1].type = "UNKNOWN"
  /\ op = "parse_time_range" /\ pc = "returned" => WellFormedRange(time_ret)
  /\ CheckReturned => WellFormedResult(result[1])
  /\ op = "check" /\ pc = "loop" /\ idx > 1
       /\ "description" \in DOMAIN regulations[idx - 1]
       => WellFormedRule(parsed[1])

\* 'NO PARKING 13PM-2PM' came back as a NO_PARKING rule without a time range
C11_Witness ==
  /\ RuleReturned
  /\ text = sign_BadHour
  /\ parsed[1].type = "NO_PARKING"
  /\ parsed[1].time_range = <<>>

\* C12: the check of an empty rule list returns allowed = true,
\* restriction_type = None and confidence 0.5 at every query time.
C12_EmptyList ==
  CheckReturned /\ regulations = <<>> =>
    /\ result[1].allowed = TRUE
    /\ result[1].restriction_type = "None"
    /\ result[1].confidence.den > 0
    /\ result[1].confidence.num = 5 * result[1].confidence.den

\* the empty list was checked for Sunday 23:30
C12_Witness ==
  /\ CheckReturned
  /\ regulations = <<>>
  /\ check_time = [weekday |-> 6, time |-> 1410]
  /\ result[1].allowed

\* a call of parse_rule that follows an earlier call with the same text
RepeatedCall == RuleReturned /\ calls' = calls + 1

C14_Confidence ==
  RuleReturned =>
    /\ "confidence" \in DOMAIN parsed[1]
    /\ parsed[1].confidence \in {5, 9}
    /\ parsed[1].confidence = 9 <=> parsed[1].type # "UNKNOWN"

StrictlyAscending(xs) == \A i \in 1..(Len(xs) - 1) : xs[i] < xs[i + 1]

DayList(xs) == StrictlyAscending(xs) /\ \A i \in 1..Len(xs) : xs[i] \in 0..6

\* C15: days and exceptions of every rule parse_rule returns, and every
\* result of parse_days, are strictly ascending lists of weekdays 0..6
\* (a rule without the field has no days), wrapped ranges included.
C15_DaysAscending ==
  /\ RuleReturned =>
       /\ DayList(Get(parsed[1], "days", <<>>))
       /\ DayList(Get(parsed[1], "exceptions", <<>>))
  /\ op = "parse_days" /\ pc = "returned" => DayList(days_ret)

\* 'NO PARKING EXCEPT SAT THRU MON' gave the exceptions Monday, Saturday,
\* Sunday in ascending order
C15_Witness ==
  /\ RuleReturned
  /\ text = sign_ExceptWrap
  /\ parsed[1].exceptions = <<0, 5, 6>>

\* C16: parsed is false exactly when the text is empty or only whitespace,
\* and then the type is Unknown and every other field is empty; for every
\* other text parsed is true.
C16_ParsedFlag ==
  RuleReturned =>
    /\ parsed[1].parsed = FALSE <=> strip(text) = <<>>
    /\ parsed[1].parsed = FALSE =>
         /\ parsed[1].type = "UNKNOWN"
         /\ Get(parsed[1], "days", <<>>) = <<>>
         /\ Get(parsed[1], "time_range", <<>>) = <<>>
         /\ Get(parsed[1], "exceptions", <<>>) = <<>>
         /\ Get(parsed[1], "hours_limit", <<>>) = <<>>

\* C17: parse_time_range of '<time>-<time>' returns the two clock times in
\* 24-hour form (PM other than 12 adds 12, 12 AM is 0, no minutes is :00) in
\* the order of the text, also when the first is later than the second.
C17_TimeRange24h ==
  op = "parse_time_range" /\ pc = "returned" =>
    \A a \in Clocks, b \in Clocks :
      text = Span(a.txt, b.txt) => time_ret = <<a.minutes, b.minutes>>

\* '10PM-2AM' gave (22:00, 02:00)
C17_Witness ==
  /\ op = "parse_time_range"
  /\ pc = "returned"
  /\ text = Span(t_10PM, t_2AM)
  /\ time_ret = <<1320, 120>>

\* C18: a rule whose exceptions contain the query weekday changes neither
\* allowed nor restriction_type, also when the weekday is in its days or its
\* days are empty, whatever its time range.
C18_ExceptionsOverride ==
  [][LoopStep =>
       (check_time.weekday \in ExceptionsOf(ParsedOf(regulations[idx]))
          => allowed' = allowed /\ restriction_type' = restriction_type)
    ]_vars

\* the overnight rule for Monday to Friday except Monday was processed for
\* Monday 01:00, inside its time range, and parking is still allowed
C18_Witness ==
  /\ pc = "loop"
  /\ idx = 2
  /\ regulations[1] = rule_NightExceptMon
  /\ check_time = [weekday |-> 0, time |-> 60]
  /\ allowed = TRUE
  /\ restriction_type = "None"

\* C19: a rule list in which no rule has a time range gives allowed = true
\* and restriction_type = None at every query time, whatever the types and
\* days of the rules.
C19_NoTimeRangeNoEffect ==
  CheckReturned
    /\ (\A i \in 1..Len(regulations) :
          WindowOf(ParsedOf(regulations[i])) = <<>>)
    => result[1].allowed = TRUE /\ result[1].restriction_type = "None"

\* 'NO STANDING ANYTIME' and a Monday NO_STANDING rule without a time range
\* were checked for Monday 08:00
C19_Witness ==
  /\ CheckReturned
  /\ regulations = <<[description |-> sign_Anytime], rule_NoWindow>>
  /\ check_time = [weekday |-> 0, time |-> 480]
  /\ result[1].allowed = TRUE

\* C20: in the loop allowed never goes from false back to true, and an
\* applicable Metered rule sets restriction_type = METERED and leaves allowed
\* as it is.
C20_AllowedMonotone ==
  [][LoopStep =>
       /\ allowed = FALSE => allowed' = FALSE
       /\ ( /\ Get(ParsedOf(regulations[idx]), "type", "None") = "METERED"
            /\ Applicable(ParsedOf(regulations[idx]), check_time) )
          => allowed' = allowed /\ restriction_type' = "METERED"
    ]_vars

\* a Metered rule was applied after a blocking rule: parking stays forbidden
C20_Witness ==
  /\ pc = "loop"
  /\ idx = 3
  /\ regulations = <<rule_WeekdayNoParking, rule_Metered>>
  /\ check_time = [weekday |-> 0, time |-> 840]
  /\ allowed = FALSE
  /\ restriction_type = "METERED"

\* the positions of the rules that are applicable at the query time and are
\* blocking or Metered
Effective ==
  {i \in 1..Len(regulations) :
     /\ Applicable(ParsedOf(regulations[i]), check_time)
     /\ Get(ParsedOf(regulations[i]), "type", "None")
          \in BlockingTypes \cup {"METERED"}}

\* C21: the restriction_type returned is the type of the last rule of the
\* list that is applicable and blocking or Metered, and None iff there is no
\* such rule.
C21_LastRuleWins ==
  CheckReturned =>
    IF Effective = {} THEN result[1].restriction_type = "None"
    ELSE \E i \in Effective :
           /\ \A j \in Effective : j <= i
           /\ result[1].restriction_type = ParsedOf(regulations[i]).type

\* a blocking rule followed by an applicable Metered rule gave
\* allowed = false with restriction_type METERED
C21_Witness ==
  /\ CheckReturned
  /\ regulations = <<rule_WeekdayNoParking, rule_Metered>>
  /\ check_time = [weekday |-> 0, time |-> 840]
  /\ result[1].allowed = FALSE
  /\ result[1].restriction_type = "METERED"

\* the sum of the confidences of the first n rules of the list, in tenths,
\* with 0.5 for a rule that carries none
RECURSIVE ConfidenceSum(_)
ConfidenceSum(n) ==
  IF n = 0 THEN 0
  ELSE Get(ParsedOf(regulations[n]), "confidence", 5) + ConfidenceSum(n - 1)

\* C22: the confidence returned is the arithmetic mean of the confidence of
\* every rule of the list, skipped rules included and 0.5 counted for a rule
\* without confidence, and 0.5 for the empty list.
C22_MeanConfidence ==
  CheckReturned =>
    /\ result[1].confidence.den > 0
    /\ IF regulations = <<>>
       THEN result[1].confidence.num = 5 * result[1].confidence.den
       ELSE result[1].confidence.num * Len(regulations)
              = ConfidenceSum(Len(regulations)) * result[1].confidence.den

\* a rule without a time range (0.9) and a rule without confidence (0.5)
\* gave the mean 0.7 on a day both are skipped or idle
C22_Witness ==
  /\ CheckReturned
  /\ regulations = <<rule_NoWindow, rule_Bare>>
  /\ check_time = [weekday |-> 5, time |-> 720]
  /\ result[1].confidence.num = 7 * result[1].confidence.den

\* the part of s strictly after the first occurrence of the literal w
AfterFirst(s, w) ==
  LET at == {i \in 1..Len(s) : StartsWithAt(s, i, w)}
      first == CHOOSE i \in at : \A j \in at : i <= j
  IN  SubSeq(s, first + Len(w), Len(s))

\* the fallback day scan: every day token found in s, as sorted weekdays
ScanDays(s) == SortedSeqOf({days_map[tok] : tok \in Range(re_findall(day_pattern, s))})

\* C23: when the text contains EXCEPT, exceptions are the fallback day scan
\* of everything after the first EXCEPT: '... EXCEPT SAT AND SUN HOLIDAYS'
\* gives [5, 6], and text after a second EXCEPT is scanned as well.
C23_ExceptionsScan ==
  RuleReturned /\ parsed[1].parsed
    /\ Contains(parsed[1].original_text, s_EXCEPT)
    => parsed[1].exceptions
         = ScanDays(AfterFirst(parsed[1].original_text, s_EXCEPT))

\* the text of a parse_days call as the strategies see it
DayText == strip(upper(text))

HasRangeWord(s) ==
  Contains(s, s_THRU) \/ Contains(s, s_THROUGH) \/ Contains(s, <<"-">>)

HasListMark(s) == Contains(s, <<"&">>) \/ Contains(s, <<",">>)

\* what each strategy alone makes of a text: the range between the two
\* sides of the range word, the listed segments that are day tokens, the
\* day tokens found anywhere
RangeResult(s) ==
  LET parts == re_split(<<s_THRU, s_THROUGH, <<"-">> >>, s)
  IN  IF Len(parts) = 2 /\ strip(parts[1]) \in DOMAIN days_map
           /\ strip(parts[2]) \in DOMAIN days_map
      THEN SortedSeqOf(WeekRange(days_map[strip(parts[1])],
                                 days_map[strip(parts[2])]))
      ELSE <<>>

ListResult(s) ==
  SortedSeqOf({days_map[strip(seg)] :
                 seg \in {g \in Range(re_split(<< <<"&">>, <<",">>, s_AND>>, s)) :
                            strip(g) \in DOMAIN days_map}})

\* C24: the result of parse_days is the result of one strategy alone, taken
\* in the order range, list, fallback scan; results are never merged, so a
\* range with a separately listed day ('MON THRU WED & FRI') does not give
\* both.
C24_OneStrategy ==
  op = "parse_days" /\ pc = "returned" =>
    /\ days_ret \in {RangeResult(DayText), ListResult(DayText),
                     ScanDays(DayText)}
    /\ HasRangeWord(DayText) => days_ret = RangeResult(DayText)
    /\ ~HasRangeWord(DayText) /\ HasListMark(DayText)
         => days_ret = ListResult(DayText)
    /\ text = Phrase(<<s_MON, s_THRU, s_WED, Amp, s_FRI>>)
         => ~({0, 1, 2, 4} \subseteq Range(days_ret))

\* 'MON THRU WED & FRI' went to the range strategy alone, which gave nothing
C24_Witness ==
  /\ op = "parse_days"
  /\ pc = "returned"
  /\ text = Phrase(<<s_MON, s_THRU, s_WED, Amp, s_FRI>>)
  /\ days_ret = <<>>

UpperLetters == {UpperChar(c) : c \in LowerCase}

\* the word w stands in s with no letter next to it on either side
WordIn(s, w) ==
  \E i \in 1..Len(s) :
    /\ StartsWithAt(s, i, w)
    /\ At(s, i - 1) \notin UpperLetters
    /\ At(s, i + Len(w)) \notin UpperLetters

\* C25: a text without '&', ',', the standalone word AND and a range
\* separator is handled by the fallback scan: days are every day token of the
\* text, so 'NO STANDING MON' gives Monday.
C25_FallbackScan ==
  /\ op = "parse_days" /\ pc = "returned"
       /\ ~HasRangeWord(DayText) /\ ~HasListMark(DayText)
       /\ ~WordIn(DayText, s_AND)
       => days_ret = ScanDays(DayText)
  /\ RuleReturned /\ text = sign_NoStandingMon => parsed[1].days = <<0>>

\* the two windows of 'NO STOPPING 7AM-10AM 4PM-7PM'
FirstWindow == <<420, 600>>
SecondWindow == <<960, 1140>>

\* C26: of a sign with two time ranges parse_rule keeps the first as
\* time_range, and the check applies the rule inside the first window only,
\* never inside the second.
C26_FirstWindowOnly ==
  /\ RuleReturned /\ text = sign_TwoWindows
       => parsed[1].time_range = FirstWindow
  /\ CheckReturned /\ regulations = <<[description |-> sign_TwoWindows]>>
       => /\ Within(FirstWindow, check_time.time)
               => result[1].allowed = FALSE
                    /\ result[1].restriction_type = "NO_STOPPING"
          /\ ~Within(FirstWindow, check_time.time)
               => result[1].allowed = TRUE
                    /\ result[1].restriction_type = "None"

\* the sign was checked at 18:00, inside its second window, and parking is
\* allowed
C26_Witness ==
  /\ CheckReturned
  /\ regulations = <<[description |-> sign_TwoWindows]>>
  /\ check_time.time = 1080
  /\ Within(SecondWindow, check_time.time)
  /\ result[1].allowed = TRUE

\* the rule has a window that crosses midnight, days, and the query time is
\* in the part of the window after midnight
EarlyMorningOf(p, q) ==
  /\ WindowOf(p) # <<>>
  /\ WindowOf(p)[1] > WindowOf(p)[2]
  /\ DaysOf(p) # {}
  /\ q.time <= WindowOf(p)[2]

\* C27: for a rule with an overnight window and days, the part of the window
\* after midnight is tested against the query's own weekday: the rule takes
\* effect there only if that weekday is in days, and never in the early
\* morning of a day outside days, also when the day before is in days.
C27_OvernightOwnWeekday ==
  [][LoopStep /\ EarlyMorningOf(ParsedOf(regulations[idx]), check_time) =>
       IF check_time.weekday \in DaysOf(ParsedOf(regulations[idx]))
       THEN ( /\ check_time.weekday
                   \notin ExceptionsOf(ParsedOf(regulations[idx]))
              /\ ParsedOf(regulations[idx]).type \in BlockingTypes )
            => /\ allowed' = FALSE
               /\ restriction_type' = ParsedOf(regulations[idx]).type
       ELSE allowed' = allowed /\ restriction_type' = restriction_type
    ]_vars

\* the Saturday and Sunday overnight rule was processed for Monday 01:00,
\* the night that began on Sunday, and parking is still allowed
C27_Witness ==
  /\ pc = "loop"
  /\ idx = 2
  /\ regulations[1] = rule_WeekendNight
  /\ check_time = [weekday |-> 0, time |-> 60]
  /\ allowed = TRUE
  /\ restriction_type = "None"

\* the cache holds an entry for parse_rule(text) that has not expired
LiveEntry(mc) ==
  /\ generate_key("parking_rule", text) \in DOMAIN mc
  /\ now < mc[generate_key("parking_rule", text)].expiry

\* a call of parse_rule
ParseRuleCall == op = "parse_rule" /\ calls' = calls + 1

\* C28: every result parse_rule returns, one with a time_range included, is
\* in the cache after the call for the time-to-live, and a call that finds
\* the entry returns it without running the wrapped function: a later call
\* within the time-to-live is served from the cache.
C28_CachedWithinTTL ==
  [][ParseRuleCall =>
       /\ LiveEntry(memory_cache')
       /\ memory_cache'[generate_key("parking_rule", text)].data = parsed'[1]
       /\ ran' => memory_cache'[generate_key("parking_rule", text)].expiry
                    = now + ParseRuleTTL
       /\ LiveEntry(memory_cache) => ~ran'
    ]_vars


\* a call of _make_request that the circuit let through has returned
RequestReturned ==
  /\ op = "make_request"
  /\ pc = "returned"
  /\ client_ready
  /\ api_ret # <<>>
  /\ api_ret[1].kind # "CircuitBreakerError"

\* every attempt of the last call met a transport-level RequestError
AllRequestErrors == \A n \in 1..MaxAttempts : api_script[n] = "request_error"

\* C29: a request whose HTTP call fails with a transport-level
\* httpx.RequestError at every attempt is attempted 3 times and then reported
\* as an ExternalAPIException, while an HTTP status error is reported as an
\* ExternalAPIException after a single attempt
C29_RetriesTransportErrors ==
  RequestReturned =>
    /\ AllRequestErrors =>
         /\ http_calls = MaxAttempts
         /\ api_ret[1].kind = "ExternalAPIException"
    /\ api_script[1] = "status_error" =>
         /\ http_calls = 1
         /\ api_ret[1].kind = "ExternalAPIException"

\* the key the cached wrapper of get_parking_data makes of the arguments
OpenCurbKey == generate_key("opencurb_data", api_args)

\* the request behind a call of get_parking_data fails: no client, a refusing
\* circuit, a failing first attempt or a response body that is not JSON
FetchFails ==
  \/ ~client_ready
  \/ breaker_blocks(breaker, now)
  \/ api_script'[1] # "ok"
  \/ api_content' = "not_json"

\* C30: get_parking_data never raises for a failing request but returns [],
\* which is stored for 300 s like any result; while an entry is live a call
\* with the same arguments returns it without any HTTP request, whatever the
\* API would answer; invalid coordinates or radius raise ValidationException
\* and store nothing
C30_FailureCachedAsEmpty ==
  [][GetParkingData =>
       IF ~(valid_coordinates(api_args) /\ valid_radius(api_args))
       THEN /\ api_ret' = <<[kind |-> "ValidationException"]>>
            /\ memory_cache' = memory_cache
            /\ http_calls' = 0
       ELSE IF cache_get(memory_cache, OpenCurbKey, now) # <<>>
       THEN /\ api_ret' = <<[kind |-> "list",
                             value |-> memory_cache[OpenCurbKey].data]>>
            /\ http_calls' = 0
            /\ memory_cache' = memory_cache
       ELSE /\ api_ret'[1].kind = "list"
            /\ FetchFails => api_ret'[1].value = ListOf(<<>>)
            /\ OpenCurbKey \in DOMAIN memory_cache'
            /\ memory_cache'[OpenCurbKey] =
                 [data |-> api_ret'[1].value, expiry |-> now + OpenCurbTTL]]_vars

\* C30 witness: the second call, made while the API answers with features,
\* returns the [] a failed first call stored, without any HTTP request
C30_Witness ==
  /\ op = "get_parking_data"
  /\ api_calls = 2
  /\ client_ready
  /\ api_script[1] = "ok"
  /\ api_content = "features"
  /\ http_calls = 0
  /\ api_ret = <<[kind |-> "list", value |-> ListOf(<<>>)]>>
  /\ OpenCurbKey \in DOMAIN memory_cache

====
